---------------------------- MODULE Spec2Model ----------------------------
(***************************************************************************)
(* Model of src/lambda/lambda_function.py: the four template patch         *)
(* functions (update_seed, update_prompt_text, update_image_size,          *)
(* update_lora_name), invoke_from_prompt and lambda_handler.               *)
(*                                                                         *)
(* A graph document (a Python dict node-id -> node) is a function over     *)
(* 1..n, the n-th key in the dict's iteration order.  A node is a record   *)
(* class_type / has_inputs / inputs / title.  The "inputs" dict is a       *)
(* record holding its key set ("keys") and one slot per field name the     *)
(* code touches; the slot of a key that is not in "keys" holds the default *)
(* 0 or "".  "title" is the set of values of node["_meta"]["title"]: empty *)
(* when "_meta" or "title" is missing (the lookup raises KeyError).        *)
(***************************************************************************)
EXTENDS Integers, Sequences, FiniteSets

\* ------------------------------------------------------------- bounds
\* Largest number of nodes in a template.
MaxNodes == 2
\* Number of invocations of lambda_handler in the concurrent specification.
NumInvocations == 2
\* Stands for int(1e10), the upper argument of random.randint (line 46):
\* scaled down, since the draw is enumerated.
SeedUpper == 3

\* ---------------------------------------------------- program constants
DefaultHeight == 512
DefaultWidth == 512
Placeholder == "POSITIVE_PROMT_PLACEHOLDER"
CharacterLora == "character-lora"

Procs == 1..NumInvocations

\* ---------------------------------------------------------- documents
Inputs(keys, h, w, s, t, l) ==
    [keys |-> keys, height |-> h, width |-> w, seed |-> s, text |-> t, lora_name |-> l]

Node(ct, hasInputs, inputs, title) ==
    [class_type |-> ct, has_inputs |-> hasInputs, inputs |-> inputs, title |-> title]

NoInputs == Inputs({}, 0, 0, 0, "", "")

\* The nodes templates are built from: each role with and without the
\* field its patch looks for, and a node of another role that carries the
\* same field names and title.
SamplerNode == Node("KSampler", TRUE, Inputs({"seed"}, 0, 0, 99, "", ""), {"sampler"})
EncoderNode == Node("CLIPTextEncode", TRUE, Inputs({"text"}, 0, 0, 0, Placeholder, ""), {"positive"})
NegativeNode == Node("CLIPTextEncode", TRUE, Inputs({"text"}, 0, 0, 0, "blurry", ""), {"negative"})
LatentNode ==
    Node("EmptySD3LatentImage", TRUE, Inputs({"height", "width"}, 256, 256, 0, "", ""), {"latent"})
LoraNode ==
    Node("LoraLoader", TRUE, Inputs({"lora_name"}, 0, 0, 0, "", "base.safetensors"), {CharacterLora})

NodePool ==
    { SamplerNode, EncoderNode, NegativeNode, LatentNode, LoraNode,
      Node("KSampler", TRUE, NoInputs, {"sampler"}),
      Node("KSampler", FALSE, NoInputs, {}),
      Node("CLIPTextEncode", TRUE, NoInputs, {}),
      Node("EmptySD3LatentImage", TRUE, Inputs({"height"}, 256, 0, 0, "", ""), {"latent"}),
      Node("EmptySD3LatentImage", TRUE, Inputs({"width"}, 0, 256, 0, "", ""), {}),
      Node("LoraLoader", TRUE, NoInputs, {CharacterLora}),
      Node("LoraLoader", TRUE, Inputs({"lora_name"}, 0, 0, 0, "", "style.safetensors"), {"style-lora"}),
      Node("LoraLoader", TRUE, Inputs({"lora_name"}, 0, 0, 0, "", "base.safetensors"), {}),
      Node("SaveImage", TRUE, Inputs({"height", "seed", "text"}, 64, 0, 5, Placeholder, ""), {CharacterLora}) }

Documents == UNION { [1..n -> NodePool] : n \in 0..MaxNodes }

\* The file ./workflow/lora_flux_workflow.json: missing, present with a
\* content json.loads rejects, or present holding a document.
TemplateFile(exists, parses, d) == [exists |-> exists, parses |-> parses, doc |-> d]

TemplateFiles ==
    { TemplateFile(FALSE, FALSE, <<>>), TemplateFile(TRUE, FALSE, <<>>) }
        \cup { TemplateFile(TRUE, TRUE, d) : d \in Documents }

\* ----------------------------------------------------------- exceptions
NoExc == [type |-> "", msg |-> ""]
Exc(type, msg) == [type |-> type, msg |-> msg]

\* The classes an exception is an instance of (Python's hierarchy:
\* JSONDecodeError < ValueError < Exception).
Bases(type) ==
    CASE type = "JSONDecodeError" -> {"JSONDecodeError", "ValueError", "Exception"}
      [] type = "ValueError" -> {"ValueError", "Exception"}
      [] OTHER -> {type, "Exception"}


\* Mutant: the catch-all clause placed before the ValueError clause.
ExceptClausesCatchAllEarly == <<"JSONDecodeError", "Exception", "ValueError">>

\* Mutant: the last clause catches KeyError only.
ExceptClausesNoCatchAll == <<"JSONDecodeError", "ValueError", "KeyError">>

\* The except clauses of lambda_handler, in order (lines 177, 183, 189).
ExceptClauses == <<"JSONDecodeError", "ValueError", "Exception">>

NoResponse == [statusCode |-> 0, error |-> "", details |-> "", isBase64Encoded |-> FALSE]

\* The response of the first except clause that catches exc; statusCode 0
\* stands for no clause catching it (the exception leaves lambda_handler).
except_response(exc) ==
    LET catching == { c \in DOMAIN ExceptClauses : ExceptClauses[c] \in Bases(exc.type) }
        first == CHOOSE c \in catching : \A o \in catching : c <= o
    IN  IF catching = {} THEN NoResponse
        ELSE IF first = 1
             THEN [statusCode |-> 400, error |-> "Invalid JSON in request body",
                   details |-> "", isBase64Encoded |-> FALSE]
        ELSE IF first = 2
             THEN [statusCode |-> 400, error |-> exc.msg,
                   details |-> "", isBase64Encoded |-> FALSE]
        ELSE [statusCode |-> 500, error |-> "Internal server error",
              details |-> exc.msg, isBase64Encoded |-> FALSE]

\* ------------------------------------------------------------- requests
\* The "seed" value of a request: absent (request.get gives None), an
\* integer, a string of digits, another string, or a list.
NoSeed == [kind |-> "none", val |-> 0]
Seed(kind, val) == [kind |-> kind, val |-> val]

\* int(seed), line 48.
int(seed) ==
    CASE seed.kind \in {"int", "numstr"} -> [err |-> NoExc, val |-> seed.val]
      [] seed.kind = "badstr" ->
            [err |-> Exc("ValueError", "invalid literal for int() with base 10"), val |-> 0]
      [] OTHER ->
            [err |-> Exc("TypeError", "int() argument must be a string or a number"), val |-> 0]

\* Mutant: the draw reaches past its upper argument.
RandomSeedsPastUpper == 0..(SeedUpper + 1)

\* random.randint(0, int(1e10)), line 46: both ends included.
RandomSeeds == 0..SeedUpper

\* --------------------------------------------------- the patch functions
Ok(node) == [err |-> NoExc, node |-> node]

\* The for loop of a patch function: res[k] is the outcome of the loop body
\* on node k.  The loop stops at the first node whose body raises; the
\* nodes before it have been written (the dict is patched in place).
Sweep(d, res) ==
    LET bad == { k \in DOMAIN d : res[k].err # NoExc }
        m == CHOOSE k \in bad : \A j \in bad : k <= j
    IN  IF bad = {}
        THEN [err |-> NoExc, doc |-> [k \in DOMAIN d |-> res[k].node]]
        ELSE [err |-> res[m].err,
              doc |-> [k \in DOMAIN d |-> IF k < m THEN res[k].node ELSE d[k]]]

ImageSizeMatch(n) ==
    n.has_inputs /\ n.class_type = "EmptySD3LatentImage" /\ "height" \in n.inputs.keys

\* Mutant: the role is not checked.
ImageSizeNodeAnyRole(n, height, width) ==
    IF n.has_inputs /\ "height" \in n.inputs.keys
    THEN [err |-> NoExc,
          node |-> [n EXCEPT !.inputs.keys = @ \cup {"height", "width"},
                             !.inputs.height = height,
                             !.inputs.width = width]]
    ELSE [err |-> NoExc, node |-> n]

ImageSizeNode(n, height, width) ==
    IF ImageSizeMatch(n)
    THEN Ok([n EXCEPT !.inputs.keys = @ \cup {"height", "width"},
                      !.inputs.height = height,
                      !.inputs.width = width])
    ELSE Ok(n)

update_image_size(prompt_dict, height, width) ==
    Sweep(prompt_dict, [k \in DOMAIN prompt_dict |-> ImageSizeNode(prompt_dict[k], height, width)])

SeedMatch(n) ==
    n.has_inputs /\ n.class_type = "KSampler" /\ "seed" \in n.inputs.keys

SeedNode(n, seed, r) ==
    IF SeedMatch(n)
    THEN IF seed.kind = "none"
         THEN Ok([n EXCEPT !.inputs.seed = r])
         ELSE IF int(seed).err # NoExc
              THEN [err |-> int(seed).err, node |-> n]
              ELSE Ok([n EXCEPT !.inputs.seed = int(seed).val])
    ELSE Ok(n)

\* rnd[k] is the value random.randint returns at node k.
update_seed(prompt_dict, seed, rnd) ==
    Sweep(prompt_dict, [k \in DOMAIN prompt_dict |-> SeedNode(prompt_dict[k], seed, rnd[k])])

\* The draws update_seed can make on d: one per matching node when no seed
\* is given, none (0) elsewhere.
SeedDraws(d, seed) ==
    { rnd \in [DOMAIN d -> RandomSeeds] :
        \A k \in DOMAIN d : (seed.kind # "none" \/ ~SeedMatch(d[k])) => rnd[k] = 0 }

PromptTextMatch(n) ==
    n.has_inputs /\ n.class_type = "CLIPTextEncode" /\ "text" \in n.inputs.keys

\* Mutant: the text is overwritten whatever it holds.
PromptTextNodeAlways(n, positive_prompt) ==
    IF PromptTextMatch(n)
    THEN [err |-> NoExc, node |-> [n EXCEPT !.inputs.text = positive_prompt]]
    ELSE [err |-> NoExc, node |-> n]

PromptTextNode(n, positive_prompt) ==
    IF PromptTextMatch(n) /\ n.inputs.text = Placeholder
    THEN Ok([n EXCEPT !.inputs.text = positive_prompt])
    ELSE Ok(n)

update_prompt_text(prompt_dict, positive_prompt) ==
    Sweep(prompt_dict, [k \in DOMAIN prompt_dict |-> PromptTextNode(prompt_dict[k], positive_prompt)])

\* The criteria of line 78 as the specification words them: the role and
\* the title tag.
LoraNameMatch(n) ==
    n.has_inputs /\ n.class_type = "LoraLoader" /\ n.title = {CharacterLora}

\* Line 78 evaluates prompt_dict[i]["_meta"]["title"] for every LoraLoader
\* node: KeyError when the node has no title metadata.
LoraNameNode(n, lora_name) ==
    IF n.has_inputs /\ n.class_type = "LoraLoader"
    THEN IF n.title = {}
         THEN [err |-> Exc("KeyError", "'_meta'"), node |-> n]
         ELSE IF n.title = {CharacterLora}
              THEN Ok([n EXCEPT !.inputs.keys = @ \cup {"lora_name"},
                                !.inputs.lora_name = lora_name])
              ELSE Ok(n)
    ELSE Ok(n)

update_lora_name(prompt_dict, lora_name) ==
    Sweep(prompt_dict, [k \in DOMAIN prompt_dict |-> LoraNameNode(prompt_dict[k], lora_name)])

\* --------------------------------------------------------------- events
\* event["body"]: "none" (no body key, or None), "empty" (""), "notjson"
\* (json.loads rejects it), "scalar" (JSON null, true or a number), "list",
\* "string" (a JSON list or string that does not hold positive_prompt) or
\* "object".  keys are the keys of a JSON object body.
Event(body, keys, positive_prompt, lora_name, seed, height, width) ==
    [body |-> body, keys |-> keys, positive_prompt |-> positive_prompt,
     lora_name |-> lora_name, seed |-> seed, height |-> height, width |-> width]

BadBody(body) == Event(body, {}, "", "", NoSeed, 0, 0)

OptionalKeys ==
    { {}, {"seed"}, {"lora_name", "height", "width"}, {"lora_name", "seed", "height", "width"} }

\* The shapes of a JSON object body: with or without positive_prompt, the
\* optional keys it holds and the kind of its seed.
RequestShapes ==
    { sh \in [req : {{}, {"positive_prompt"}}, opt : OptionalKeys,
              kind : {"int", "numstr", "badstr", "list"}] :
        (sh.req = {} \/ "lora_name" \in sh.opt \/ "seed" \notin sh.opt) => sh.kind = "int" }

\* The JSON object bodies carrying the given values.
ObjectEvents(positive_prompt, lora_name, seedval, height, width) ==
    { Event("object", sh.req \cup sh.opt,
            IF "positive_prompt" \in sh.req THEN positive_prompt ELSE "",
            IF "lora_name" \in sh.opt THEN lora_name ELSE "",
            IF "seed" \in sh.opt
            THEN Seed(sh.kind, IF sh.kind \in {"int", "numstr"} THEN seedval ELSE 0)
            ELSE NoSeed,
            IF "height" \in sh.opt THEN height ELSE 0,
            IF "width" \in sh.opt THEN width ELSE 0) : sh \in RequestShapes }

Events ==
    { BadBody(b) : b \in {"none", "empty", "notjson", "scalar", "list", "string"} }
        \cup ObjectEvents("a handsome man smiling", "dm7249atlas.safetensors", 123, 768, 1024)

\* request.get(key, default), lines 146-149.
LoraNameOf(ev) == IF "lora_name" \in ev.keys THEN ev.lora_name ELSE ""
SeedOf(ev) == IF "seed" \in ev.keys THEN ev.seed ELSE NoSeed
HeightOf(ev) == IF "height" \in ev.keys THEN ev.height ELSE DefaultHeight
WidthOf(ev) == IF "width" \in ev.keys THEN ev.width ELSE DefaultWidth

\* Status codes sagemaker_client.invoke_endpoint can report when it returns.
BackendStatuses == {200, 202}

NoCall == [called |-> FALSE, raised |-> FALSE, status |-> 0]

\* ---------------------------------------------------------------- state
VARIABLES
    template,     \* the template file
    endpoint,     \* TRUE iff os.environ holds ENDPOINT_NAME
    event,        \* event[i]: the event of invocation i
    pc,           \* pc[i]: where invocation i stands
    document,     \* document[s]: the prompt_dict held in slot s
    prev,         \* prev[i]: prompt_dict as the last patch function received it
    lastOp,       \* lastOp[i]: the last patch function called ("" if none)
    opErr,        \* opErr[i]: the exception that call raised (NoExc if none)
    raised,       \* raised[i]: the exception raised in invocation i
    drawn,        \* drawn[i]: the values random.randint returned
    reads,        \* reads[i]: times the template file was opened
    calls,        \* calls[i]: times invoke_endpoint was called
    sent,         \* sent[i]: the document serialised into the last call's Body
    backend,      \* backend[i]: outcome of the call
    response      \* response[i]: what lambda_handler returned

vars == <<template, endpoint, event, pc, document, prev, lastOp, opErr, raised, drawn,
          reads, calls, sent, backend, response>>

\* Mutant: one prompt_dict shared by all invocations.
SharedSlot(i) == 1

\* prompt_dict is a local variable of invoke_from_prompt (line 104): each
\* invocation has its own.
Slot(i) == i

InitLocals ==
    /\ document = [s \in Procs |-> <<>>]
    /\ prev = [i \in Procs |-> <<>>]
    /\ lastOp = [i \in Procs |-> ""]
    /\ opErr = [i \in Procs |-> NoExc]
    /\ raised = [i \in Procs |-> NoExc]
    /\ drawn = [i \in Procs |-> <<>>]
    /\ reads = [i \in Procs |-> 0]
    /\ calls = [i \in Procs |-> 0]
    /\ sent = [i \in Procs |-> <<>>]
    /\ backend = [i \in Procs |-> NoCall]
    /\ response = [i \in Procs |-> NoResponse]

\* One invocation, any template, any event, with or without ENDPOINT_NAME.
Init ==
    /\ template \in TemplateFiles
    /\ endpoint \in BOOLEAN
    /\ event \in [Procs -> Events]
    /\ \A i \in Procs : i # 1 => event[i] = BadBody("none")
    /\ pc = [i \in Procs |-> IF i = 1 THEN "start" ELSE "off"]
    /\ InitLocals

\* Every invocation runs, each on one of two requests with different
\* values (seed included), over a template holding a node of every patched
\* role.
ConcTemplates ==
    { TemplateFile(TRUE, TRUE, <<SamplerNode, EncoderNode, LatentNode, LoraNode>>),
      TemplateFile(TRUE, TRUE, <<LoraNode, NegativeNode, SamplerNode>>) }

ConcEvents ==
    { Event("object", {"positive_prompt", "seed"}, "a handsome man smiling", "",
            Seed("numstr", 7), 0, 0),
      Event("object", {"positive_prompt", "lora_name", "seed", "height", "width"},
            "a red fox", "fox.safetensors", Seed("int", 123), 768, 1024) }

InitConc ==
    /\ template \in ConcTemplates
    /\ endpoint = TRUE
    /\ event \in [Procs -> ConcEvents]
    /\ pc = [i \in Procs |-> "start"]
    /\ InitLocals

\* The exception exc ends invocation i in an except clause.
Raise(i, exc) ==
    /\ raised' = [raised EXCEPT ![i] = exc]
    /\ response' = [response EXCEPT ![i] = except_response(exc)]
    /\ pc' = [pc EXCEPT ![i] = IF except_response(exc) = NoResponse THEN "escaped" ELSE "done"]

\* Lines 131-149: the body is checked, parsed and its parameters read.
ValidationError(ev) ==
    IF ev.body \in {"none", "empty"} THEN Exc("ValueError", "Missing request body")
    ELSE IF ev.body = "notjson" THEN Exc("JSONDecodeError", "Expecting value")
    ELSE IF ev.body = "scalar" THEN Exc("TypeError", "argument of type is not iterable")
    ELSE IF "positive_prompt" \notin ev.keys
         THEN Exc("ValueError", "Missing required parameter: positive_prompt")
    ELSE NoExc

ValidateRequest(i) ==
    /\ pc[i] = "start"
    /\ IF ValidationError(event[i]) # NoExc
       THEN Raise(i, ValidationError(event[i]))
       ELSE /\ pc' = [pc EXCEPT ![i] = "load"]
            /\ UNCHANGED <<raised, response>>
    /\ UNCHANGED <<template, endpoint, event, document, prev, lastOp, opErr, drawn,
                   reads, calls, sent, backend>>

\* Lines 101-104: open and read the file, json.loads its text.
LoadTemplate(i) ==
    /\ pc[i] = "load"
    /\ reads' = [reads EXCEPT ![i] = @ + 1]
    /\ IF ~template.exists
       THEN /\ Raise(i, Exc("FileNotFoundError", "No such file or directory"))
            /\ UNCHANGED document
       ELSE IF ~template.parses
       THEN /\ Raise(i, Exc("JSONDecodeError", "Expecting value"))
            /\ UNCHANGED document
       ELSE /\ document' = [document EXCEPT ![Slot(i)] = template.doc]
            /\ pc' = [pc EXCEPT ![i] = "update_seed"]
            /\ UNCHANGED <<raised, response>>
    /\ UNCHANGED <<template, endpoint, event, prev, lastOp, opErr, drawn, calls, sent, backend>>

\* A call prompt_dict = op(prompt_dict, ...) of lines 105-108 with outcome res.
Patch(i, op, res, next) ==
    /\ pc[i] = op
    /\ prev' = [prev EXCEPT ![i] = document[Slot(i)]]
    /\ lastOp' = [lastOp EXCEPT ![i] = op]
    /\ opErr' = [opErr EXCEPT ![i] = res.err]
    /\ document' = [document EXCEPT ![Slot(i)] = res.doc]
    /\ IF res.err # NoExc
       THEN Raise(i, res.err)
       ELSE /\ pc' = [pc EXCEPT ![i] = next]
            /\ UNCHANGED <<raised, response>>
    /\ UNCHANGED <<template, endpoint, event, reads, calls, sent, backend>>

ApplySeed(i) ==
    \E rnd \in SeedDraws(document[Slot(i)], SeedOf(event[i])) :
        /\ Patch(i, "update_seed",
                 update_seed(document[Slot(i)], SeedOf(event[i]), rnd), "update_prompt_text")
        /\ drawn' = [drawn EXCEPT ![i] = rnd]

ApplyPromptText(i) ==
    /\ Patch(i, "update_prompt_text",
             update_prompt_text(document[Slot(i)], event[i].positive_prompt), "update_image_size")
    /\ UNCHANGED drawn

ApplyImageSize(i) ==
    /\ Patch(i, "update_image_size",
             update_image_size(document[Slot(i)], HeightOf(event[i]), WidthOf(event[i])),
             "update_lora_name")
    /\ UNCHANGED drawn

ApplyLoraName(i) ==
    /\ Patch(i, "update_lora_name",
             update_lora_name(document[Slot(i)], LoraNameOf(event[i])), "invoke")
    /\ UNCHANGED drawn

\* Lines 109-123: serialise, read ENDPOINT_NAME, call invoke_endpoint once.
InvokeEndpoint(i) ==
    /\ pc[i] = "invoke"
    /\ IF ~endpoint
       THEN /\ Raise(i, Exc("KeyError", "'ENDPOINT_NAME'"))
            /\ UNCHANGED <<calls, sent, backend>>
       ELSE /\ calls' = [calls EXCEPT ![i] = @ + 1]
            /\ sent' = [sent EXCEPT ![i] = document[Slot(i)]]
            /\ \E status \in BackendStatuses \cup {0} :
                 IF status = 0
                 THEN /\ backend' = [backend EXCEPT ![i] =
                                        [called |-> TRUE, raised |-> TRUE, status |-> 0]]
                      /\ Raise(i, Exc("ClientError", "An error occurred when calling InvokeEndpoint"))
                 ELSE /\ backend' = [backend EXCEPT ![i] =
                                        [called |-> TRUE, raised |-> FALSE, status |-> status]]
                      /\ pc' = [pc EXCEPT ![i] = "respond"]
                      /\ UNCHANGED <<raised, response>>
    /\ UNCHANGED <<template, endpoint, event, document, prev, lastOp, opErr, drawn, reads>>

\* Lines 168-175: read the response body and build the response.
ReturnResponse(i) ==
    /\ pc[i] = "respond"
    /\ \E readable \in BOOLEAN :
         IF readable
         THEN /\ response' = [response EXCEPT ![i] =
                    [statusCode |-> backend[i].status, error |-> "", details |-> "",
                     isBase64Encoded |-> TRUE]]
              /\ pc' = [pc EXCEPT ![i] = "done"]
              /\ UNCHANGED raised
         ELSE Raise(i, Exc("ResponseStreamingError", "An error occurred while reading the body"))
    /\ UNCHANGED <<template, endpoint, event, document, prev, lastOp, opErr, drawn,
                   reads, calls, sent, backend>>

lambda_handler(i) ==
    \/ ValidateRequest(i)
    \/ LoadTemplate(i)
    \/ ApplySeed(i)
    \/ ApplyPromptText(i)
    \/ ApplyImageSize(i)
    \/ ApplyLoraName(i)
    \/ InvokeEndpoint(i)
    \/ ReturnResponse(i)

Next == \E i \in Procs : lambda_handler(i)

Spec == Init /\ [][Next]_vars

SpecConc == InitConc /\ [][Next]_vars

\* ================================================================ claims
Finished(i) == pc[i] \in {"done", "escaped"}

\* The match criteria of a patch function: role, field and title.
Matches(op, n) ==
    CASE op = "update_seed" -> SeedMatch(n)
      [] op = "update_prompt_text" -> PromptTextMatch(n)
      [] op = "update_image_size" -> ImageSizeMatch(n)
      [] OTHER -> LoraNameMatch(n)

\* C1: a patch function called on a document none of whose nodes matches its
\* role/field/title criteria raises nothing and returns the document as it
\* received it; this includes a LoraLoader node without title metadata.
C1_NoMatchIsNoOp ==
    \A i \in Procs :
        (lastOp[i] # "" /\ \A k \in DOMAIN prev[i] : ~Matches(lastOp[i], prev[i][k]))
            => (opErr[i] = NoExc /\ document[Slot(i)] = prev[i])

\* C2: a valid request over a missing or unparseable template ends with a
\* 5xx status and without a call of the backend.
C2_TemplateFailureIs5xx ==
    \A i \in Procs :
        (Finished(i) /\ ValidationError(event[i]) = NoExc
                     /\ (~template.exists \/ ~template.parses))
            => (response[i].statusCode \in 500..599 /\ calls[i] = 0)

\* C3: a request with no body, an unparseable body or a body without
\* positive_prompt ends with status 400 and an error message, the template
\* never read, no patch applied and the backend never called.
C3_ValidationShortCircuits ==
    \A i \in Procs :
        (Finished(i) /\ (event[i].body \in {"none", "empty", "notjson"}
                            \/ "positive_prompt" \notin event[i].keys))
            => /\ response[i].statusCode = 400
               /\ response[i].error # ""
               /\ reads[i] = 0
               /\ lastOp[i] = ""
               /\ calls[i] = 0

\* C4: after any prefix of the patch pipeline the document has the
\* template's node identifiers, and every node its role and its set of input
\* field names.
C4_ShapePreserved ==
    \A i \in Procs :
        (lastOp[i] # "" /\ opErr[i] = NoExc)
            => /\ DOMAIN document[Slot(i)] = DOMAIN template.doc
               /\ \A k \in DOMAIN template.doc :
                    /\ document[Slot(i)][k].class_type = template.doc[k].class_type
                    /\ document[Slot(i)][k].inputs.keys = template.doc[k].inputs.keys

\* update_seed has just returned in invocation i, which supplied no seed.
SeededAtRandom(i) ==
    lastOp[i] = "update_seed" /\ opErr[i] = NoExc /\ SeedOf(event[i]).kind = "none"

\* C5 as stated: every seed update_seed writes when no seed is supplied is
\* at least 0 and below the upper bound int(1e10).
C5_SeedBelowUpper ==
    \A i \in Procs : SeededAtRandom(i) =>
        \A k \in DOMAIN prev[i] : SeedMatch(prev[i][k]) =>
            (0 <= document[Slot(i)][k].inputs.seed
                /\ document[Slot(i)][k].inputs.seed < SeedUpper)

\* C5, amended: every seed update_seed writes when no seed is supplied is
\* at least 0 and at most the upper bound int(1e10), which can be produced.
C5_SeedWithinRange ==
    \A i \in Procs : SeededAtRandom(i) =>
        \A k \in DOMAIN prev[i] : SeedMatch(prev[i][k]) =>
            (0 <= document[Slot(i)][k].inputs.seed
                /\ document[Slot(i)][k].inputs.seed <= SeedUpper)

C5_Witness ==
    \E i \in Procs : SeededAtRandom(i) /\
        \E k \in DOMAIN prev[i] :
            /\ SeedMatch(prev[i][k])
            /\ prev[i][k].inputs.seed = 99
            /\ document[Slot(i)][k].inputs.seed = SeedUpper

\* C6 as stated: after update_prompt_text every CLIPTextEncode node with a
\* text field holds the supplied text, whatever it held before.
C6_TextAlwaysOverwritten ==
    \A i \in Procs : (lastOp[i] = "update_prompt_text" /\ opErr[i] = NoExc) =>
        \A k \in DOMAIN prev[i] :
            (prev[i][k].class_type = "CLIPTextEncode" /\ "text" \in prev[i][k].inputs.keys)
                => document[Slot(i)][k].inputs.text = event[i].positive_prompt

\* C6, amended: after update_prompt_text every CLIPTextEncode node whose
\* text field held the placeholder holds the supplied text, and a text field
\* that held anything else is as it was.
C6_PlaceholderOverwritten ==
    \A i \in Procs : (lastOp[i] = "update_prompt_text" /\ opErr[i] = NoExc) =>
        \A k \in DOMAIN prev[i] :
            (prev[i][k].class_type = "CLIPTextEncode" /\ "text" \in prev[i][k].inputs.keys)
                => document[Slot(i)][k].inputs.text =
                        IF prev[i][k].inputs.text = Placeholder
                        THEN event[i].positive_prompt
                        ELSE prev[i][k].inputs.text

C6_Witness ==
    \E i \in Procs : lastOp[i] = "update_prompt_text" /\
        \E k, j \in DOMAIN prev[i] :
            /\ prev[i][k].class_type = "CLIPTextEncode"
            /\ prev[i][k].inputs.text = Placeholder
            /\ document[Slot(i)][k].inputs.text = "a handsome man smiling"
            /\ prev[i][j].class_type = "CLIPTextEncode"
            /\ prev[i][j].inputs.text = "blurry"
            /\ document[Slot(i)][j].inputs.text = "blurry"

\* C7: update_image_size writes the given height and width into every
\* EmptySD3LatentImage node that has a height field, changes nothing else in
\* those nodes and no other node, and a second call with the same arguments
\* changes nothing.
C7_ImageSizeFrame ==
    \A i \in Procs : lastOp[i] = "update_image_size" =>
        LET d == document[Slot(i)]
            p == prev[i]
            h == HeightOf(event[i])
            w == WidthOf(event[i])
        IN  /\ opErr[i] = NoExc
            /\ DOMAIN d = DOMAIN p
            /\ \A k \in DOMAIN p :
                 IF p[k].has_inputs /\ p[k].class_type = "EmptySD3LatentImage"
                        /\ "height" \in p[k].inputs.keys
                 THEN /\ d[k].inputs.height = h
                      /\ d[k].inputs.width = w
                      /\ {"height", "width"} \subseteq d[k].inputs.keys
                      /\ d[k].inputs.keys \ {"width"} = p[k].inputs.keys \ {"width"}
                      /\ [d[k] EXCEPT !.inputs = p[k].inputs] = p[k]
                      /\ d[k].inputs.seed = p[k].inputs.seed
                      /\ d[k].inputs.text = p[k].inputs.text
                      /\ d[k].inputs.lora_name = p[k].inputs.lora_name
                 ELSE d[k] = p[k]
            /\ update_image_size(d, h, w) = [err |-> NoExc, doc |-> d]

C7_Witness ==
    \E i \in Procs : lastOp[i] = "update_image_size" /\
        \E k, j \in DOMAIN prev[i] :
            /\ prev[i][k].class_type = "EmptySD3LatentImage"
            /\ prev[i][k].inputs.height = 256
            /\ document[Slot(i)][k].inputs.height = 768
            /\ document[Slot(i)][k].inputs.width = 1024
            /\ prev[i][j].class_type = "SaveImage"
            /\ document[Slot(i)][j].inputs.height = 64

\* The template patched with the values of invocation i's own request and
\* its own random draws.
OwnPatchedTemplate(i) ==
    LET d1 == update_seed(template.doc, SeedOf(event[i]), drawn[i]).doc
        d2 == update_prompt_text(d1, event[i].positive_prompt).doc
        d3 == update_image_size(d2, HeightOf(event[i]), WidthOf(event[i])).doc
    IN  update_lora_name(d3, LoraNameOf(event[i])).doc

\* C8: under every interleaving of the invocations, the document an
\* invocation sends to the backend is the template patched with that
\* invocation's own request values, and no step modifies the template.
C8_OwnDocument ==
    /\ [](\A i \in Procs : calls[i] > 0 => sent[i] = OwnPatchedTemplate(i))
    /\ [][template' = template]_vars

\* One invocation has sent its document while another, with a different
\* request, is in the middle of its patches.
C8_Witness ==
    \E i, j \in Procs :
        /\ i # j
        /\ event[i] # event[j]
        /\ calls[i] = 1
        /\ sent[i] # template.doc
        /\ pc[j] \in {"update_prompt_text", "update_image_size", "update_lora_name"}

\* C9: the backend is called at most once per run, and a run whose backend
\* call raised called it exactly once and ends with a 5xx status and the
\* error's detail.
C9_BackendFailureOnce ==
    \A i \in Procs :
        /\ calls[i] <= 1
        /\ (Finished(i) /\ backend[i].raised)
              => /\ calls[i] = 1
                 /\ response[i].statusCode \in 500..599
                 /\ response[i].details = raised[i].msg
                 /\ response[i].details # ""

C9_Witness ==
    \E i \in Procs :
        pc[i] = "done" /\ backend[i].raised /\ raised[i].type = "ClientError"

\* C10: no exception leaves lambda_handler; a finished run returned a
\* statusCode that is 400, 500 or the backend's, and the backend's only when
\* the backend call returned.
C10_HandlerTotal ==
    \A i \in Procs :
        /\ pc[i] # "escaped"
        /\ pc[i] = "done" =>
              /\ response[i].statusCode \in {400, 500} \cup BackendStatuses
              /\ response[i].statusCode \notin {400, 500} =>
                    /\ backend[i].called
                    /\ ~backend[i].raised
                    /\ raised[i] = NoExc
                    /\ response[i].statusCode = backend[i].status

\* A list as seed makes int(seed) raise TypeError, answered with 500.
C10_Witness ==
    \E i \in Procs :
        /\ pc[i] = "done"
        /\ event[i].seed.kind = "list"
        /\ raised[i].type = "TypeError"
        /\ response[i].statusCode = 500

============================================================================
